---------------------------- MODULE Spec2Model ----------------------------
(***************************************************************************)
(* A model of yozel/proxypool: the proxy agent (rate gate, explicit        *)
(* health report, derived state, close) and the pool (candidate ordering,  *)
(* the request/retry loop, the classification policy).                     *)
(*                                                                         *)
(* Time is counted in seconds; the clock advances by TickSeconds per Tick. *)
(* Go's zero time.Time is ZeroTime; the process starts at StartTime, far   *)
(* later than the staleness threshold after it.  Rate-gate tokens are      *)
(* counted in fractions: one token is Scale units, and a Tick refills one  *)
(* unit (the limiter's rate and burst are parameters of the caller).       *)
(***************************************************************************)
EXTENDS Integers, Sequences, FiniteSets, TLC

VARIABLES
    now,        \* the wall clock, in seconds
    agents,     \* agent instance -> its fields (ProxyAgentWithLimiter)
    threads,    \* goroutine calling an agent's methods directly -> its position
    pagents,    \* Pool.agents: name -> agent instance
    middleware, \* Pool.middleware: which classification policy the pool holds
    calls,      \* goroutine inside Pool.Do -> its position and locals
    crashed     \* an unrecovered panic has ended the process

vars == <<now, agents, threads, pagents, middleware, calls, crashed>>

-----------------------------------------------------------------------------
(* Bounds *)

TickSeconds == 300
MaxTicks == 2
StartTime == 1000
Scale == 2
Burst == 2
SoloBurst == 1
MaxOps == 1
MaxPoolTicks == 1

-----------------------------------------------------------------------------
(* Program constants *)

MaxRetry == 3
StaleAfter == 300
ZeroTime == 0

Unknown == "UNKNOWN"
Ok == "OK"
Error == "ERROR"
Banned == "BANNED"
OutOfDate == "OUT OF DATE"
Unavailable == "UNAVAILABLE"
Closed == "CLOSED"

ErrAgentClosed == "agent is closed"
ErrRateLimit == "rate limit exceeded"
ErrNoHealthyAgents == "no healthy agents"
ErrCanceled == "context canceled"
ErrDeadline == "context deadline exceeded"
ErrTransport == "connection refused"
ErrReadBody == "failed to read response body"
ErrReadRequest == "unexpected EOF"
ErrNotFound == "agent not found"
NoErr == "nil"

\* How far the clock runs while one agent is exercised, and while the pool is.
MaxTime == StartTime + MaxTicks * TickSeconds
MaxPoolTime == StartTime + MaxPoolTicks * TickSeconds

-----------------------------------------------------------------------------
(* The agent *)

StateReport(h, msg, ts) == [State |-> h, Message |-> msg, Timestamp |-> ts]

\* NewProxyAgentWithLimiter: zero-valued report, counters and instants; a
\* transport client; the caller's rate gate, full, of the given burst.
NewProxyAgentWithLimiter(burst) ==
    [ closed          |-> FALSE,
      client          |-> TRUE,
      burst           |-> burst,
      tokens          |-> burst * Scale,
      state           |-> StateReport(Unknown, "", ZeroTime),
      requests        |-> 0,
      lastRequestTime |-> ZeroTime,
      wg              |-> 0 ]

\* time.Since(t)
Since(t) == now - t

\* limiter.Tokens() < 1
NoToken(a) == a.tokens < Scale

\* limiter.Allow(): one whole token is there to take
Allow(a) == a.tokens >= Scale

\* A threshold that 300 s themselves exceed.
StaleMutGe(ts) == Since(ts) >= StaleAfter

\* time.Since(ts) > 300*time.Second
Stale(ts) == Since(ts) > StaleAfter

\* ProxyAgentWithLimiter.State
AgentState(a) ==
    IF a.closed THEN StateReport(Closed, "Agent closed", now)
    ELSE IF NoToken(a) THEN StateReport(Unavailable, "No tokens available", now)
    ELSE IF a.state.State # Ok /\ Stale(a.state.Timestamp)
         THEN StateReport(OutOfDate, "Out of date health report", now)
    ELSE a.state

\* A SetState that stamps the report but keeps its state.
AgentSetStateMutKeep(a, h, msg) == [a EXCEPT !.state = StateReport(@.State, msg, now)]

\* ProxyAgentWithLimiter.SetState
AgentSetState(a, h, msg) == [a EXCEPT !.state = StateReport(h, msg, now)]

\* The locked section of Do counting the request before the rate gate is asked.
AgentDoEnterMutCount(a) ==
    IF a.closed THEN [agent |-> a, err |-> ErrAgentClosed]
    ELSE IF ~Allow(a) THEN [agent |-> [a EXCEPT !.requests = @ + 1], err |-> ErrRateLimit]
    ELSE [ agent |-> [a EXCEPT !.tokens = @ - Scale,
                               !.wg = @ + 1,
                               !.client = TRUE,
                               !.requests = @ + 1,
                               !.lastRequestTime = now],
           err |-> NoErr ]

\* The locked section of Do with the rate gate asked before the closed flag.
AgentDoEnterMutOrder(a) ==
    IF ~Allow(a) THEN [agent |-> a, err |-> ErrRateLimit]
    ELSE IF a.closed THEN [agent |-> a, err |-> ErrAgentClosed]
    ELSE [ agent |-> [a EXCEPT !.tokens = @ - Scale,
                               !.wg = @ + 1,
                               !.client = TRUE,
                               !.requests = @ + 1,
                               !.lastRequestTime = now],
           err |-> NoErr ]

\* ProxyAgentWithLimiter.Do, the section under a.mu: the closed check, the rate
\* gate, wg.Add(1), the client re-created when nil, the counter and the instant.
AgentDoEnter(a) ==
    IF a.closed THEN [agent |-> a, err |-> ErrAgentClosed]
    ELSE IF ~Allow(a) THEN [agent |-> a, err |-> ErrRateLimit]
    ELSE [ agent |-> [a EXCEPT !.tokens = @ - Scale,
                               !.wg = @ + 1,
                               !.client = TRUE,
                               !.requests = @ + 1,
                               !.lastRequestTime = now],
           err |-> NoErr ]

\* A Close that raises the flag and leaves the client attached.
AgentCloseEnterMutKeep(a) == [a EXCEPT !.closed = TRUE]

\* ProxyAgentWithLimiter.Close, the section under a.mu
AgentCloseEnter(a) == [a EXCEPT !.closed = TRUE, !.client = FALSE]

\* the deferred wg.Done()
AgentDone(a) == [a EXCEPT !.wg = @ - 1]

\* The rate gate refills with time, up to its burst.
Refill(a) == [a EXCEPT !.tokens = IF @ < a.burst * Scale THEN @ + 1 ELSE @]


-----------------------------------------------------------------------------
(* Goroutines calling one agent's methods directly *)

IdleThread ==
    [ pc |-> "idle", agent |-> "", name |-> "", ret |-> "none", err |-> NoErr,
      result |-> <<>>, ops |-> 0 ]

\* What the transport client answers to a direct caller.
DirectOutcomes == {NoErr, ErrTransport}

Begin(t) ==
    /\ ~crashed
    /\ threads[t].pc = "idle"
    /\ threads[t].ops < MaxOps

\* Do, lines 118-148: under a.mu.  A refused call returns at once.
ThreadDoEnter(t, a) ==
    /\ Begin(t)
    /\ LET r == AgentDoEnter(agents[a]) IN
       /\ agents' = [agents EXCEPT ![a] = r.agent]
       /\ threads' = [threads EXCEPT ![t] =
            IF r.err = NoErr
            THEN [@ EXCEPT !.pc = "doCall", !.agent = a, !.ret = "none",
                           !.err = NoErr, !.ops = @ + 1]
            ELSE [@ EXCEPT !.agent = a, !.ret = "do", !.err = r.err, !.ops = @ + 1]]
    /\ UNCHANGED <<now, pagents, middleware, calls, crashed>>

\* Do, line 149: a.client is read after a.mu is released.  A nil client is a nil
\* pointer dereference: the deferred wg.Done() runs and the process ends.
ThreadDoCall(t) ==
    /\ ~crashed
    /\ threads[t].pc = "doCall"
    /\ LET a == threads[t].agent IN
       IF agents[a].client
       THEN /\ threads' = [threads EXCEPT ![t].pc = "transport"]
            /\ UNCHANGED <<agents, crashed>>
       ELSE /\ threads' = [threads EXCEPT ![t].pc = "panic"]
            /\ agents' = [agents EXCEPT ![a] = AgentDone(@)]
            /\ crashed' = TRUE
    /\ UNCHANGED <<now, pagents, middleware, calls>>

\* Do, line 149: the transport call returns; the deferred wg.Done() runs.
ThreadDoReturn(t, e) ==
    /\ ~crashed
    /\ threads[t].pc = "transport"
    /\ agents' = [agents EXCEPT ![threads[t].agent] = AgentDone(@)]
    /\ threads' = [threads EXCEPT ![t].pc = "idle", ![t].ret = "do", ![t].err = e]
    /\ UNCHANGED <<now, pagents, middleware, calls, crashed>>

\* Close, lines 67-72: under a.mu the flag is set and the client detached; the
\* caller that found a client goes on to wait, any other skips the wait.
ThreadCloseEnter(t, a) ==
    /\ Begin(t)
    /\ agents' = [agents EXCEPT ![a] = AgentCloseEnter(@)]
    /\ threads' = [threads EXCEPT ![t] =
         [@ EXCEPT !.pc = IF agents[a].client THEN "closeWait" ELSE "closeTail",
                   !.agent = a, !.ret = "none", !.err = NoErr, !.ops = @ + 1]]
    /\ UNCHANGED <<now, pagents, middleware, calls, crashed>>

\* Close, lines 73-75: wg.Wait() returns once no Do is in flight.
ThreadCloseWait(t) ==
    /\ ~crashed
    /\ threads[t].pc = "closeWait"
    /\ agents[threads[t].agent].wg = 0
    /\ threads' = [threads EXCEPT ![t].pc = "closeTail"]
    /\ UNCHANGED <<now, agents, pagents, middleware, calls, crashed>>

\* Close, line 77: a.client = nil once more, outside a.mu; Close returns.
ThreadCloseReturn(t) ==
    /\ ~crashed
    /\ threads[t].pc = "closeTail"
    /\ agents' = [agents EXCEPT ![threads[t].agent].client = FALSE]
    /\ threads' = [threads EXCEPT ![t].pc = "idle", ![t].ret = "close"]
    /\ UNCHANGED <<now, pagents, middleware, calls, crashed>>

\* What a direct caller may report.
ReportStates == {Unknown, Ok, Error, Banned}

\* SetState, lines 107-115
ThreadSetState(t, a, h) ==
    /\ Begin(t)
    /\ agents' = [agents EXCEPT ![a] = AgentSetState(@, h, "direct")]
    /\ threads' = [threads EXCEPT ![t] =
         [@ EXCEPT !.agent = a, !.ret = "setState", !.err = NoErr, !.ops = @ + 1]]
    /\ UNCHANGED <<now, pagents, middleware, calls, crashed>>

\* Time passes: the clock advances and every rate gate refills.
Tick(limit) ==
    /\ ~crashed
    /\ now < limit
    /\ now' = now + TickSeconds
    /\ agents' = [a \in DOMAIN agents |-> Refill(agents[a])]
    /\ UNCHANGED <<threads, pagents, middleware, calls, crashed>>

ThreadNames == {"t1", "t2", "t3"}

InitAgent ==
    /\ now = StartTime
    /\ agents = [a \in {"proxy1"} |-> NewProxyAgentWithLimiter(SoloBurst)]
    /\ threads = [t \in ThreadNames |-> IdleThread]
    /\ pagents = <<>>
    /\ middleware = "reference"
    /\ calls = <<>>
    /\ crashed = FALSE

NextAgent ==
    \/ \E t \in DOMAIN threads, a \in DOMAIN agents : ThreadDoEnter(t, a)
    \/ \E t \in DOMAIN threads : ThreadDoCall(t)
    \/ \E t \in DOMAIN threads, e \in DirectOutcomes : ThreadDoReturn(t, e)
    \/ \E t \in DOMAIN threads, a \in DOMAIN agents : ThreadCloseEnter(t, a)
    \/ \E t \in DOMAIN threads : ThreadCloseWait(t)
    \/ \E t \in DOMAIN threads : ThreadCloseReturn(t)
    \/ \E t \in DOMAIN threads, a \in DOMAIN agents, h \in ReportStates :
         ThreadSetState(t, a, h)
    \/ Tick(MaxTime)

SpecAgent == InitAgent /\ [][NextAgent]_vars

-----------------------------------------------------------------------------
(* The agent's lock, a.mu, where it matters who waits for it: Info() against
   the writers.  A sync.RWMutex admits no new reader once a writer has called
   Lock(), and the writer gets the lock when the readers it found have left. *)

\* The goroutines that hold a.mu for reading: those inside Info()
ReadLocks(a) ==
    {t \in DOMAIN threads : threads[t].agent = a /\ threads[t].pc \in {"info", "infoTail"}}

\* A goroutine has called a.mu.Lock() and has not yet been given the lock.
WriterPending(a) ==
    \E t \in DOMAIN threads : threads[t].agent = a /\ threads[t].pc = "lock"

\* Info, line 56: a.mu.RLock()
InfoEnter(t, a) ==
    /\ Begin(t)
    /\ ~WriterPending(a)
    /\ threads' = [threads EXCEPT ![t] =
         [@ EXCEPT !.pc = "info", !.agent = a, !.name = "", !.ret = "none",
                   !.err = NoErr, !.ops = @ + 1]]
    /\ UNCHANGED <<now, agents, pagents, middleware, calls, crashed>>

\* Info, line 60: a.State() takes a.mu.RLock() again (line 81), derives the
\* state and releases that read lock.
InfoState(t) ==
    /\ ~crashed
    /\ threads[t].pc = "info"
    /\ ~WriterPending(threads[t].agent)
    /\ threads' = [threads EXCEPT ![t] =
         [@ EXCEPT !.pc = "infoTail",
                   !.result = <<AgentState(agents[threads[t].agent]).State>>]]
    /\ UNCHANGED <<now, agents, pagents, middleware, calls, crashed>>

\* Info, lines 57 and 61-64: the report is returned, the deferred RUnlock runs.
InfoReturn(t) ==
    /\ ~crashed
    /\ threads[t].pc = "infoTail"
    /\ threads' = [threads EXCEPT ![t].pc = "idle", ![t].ret = "info"]
    /\ UNCHANGED <<now, agents, pagents, middleware, calls, crashed>>

\* The methods that take a.mu.Lock()
Writers == {"setState", "do", "close"}

\* SetState line 108, Do line 118, Close line 67: a.mu.Lock() is called.
WriterArrive(t, a, op) ==
    /\ Begin(t)
    /\ threads' = [threads EXCEPT ![t] =
         [@ EXCEPT !.pc = "lock", !.agent = a, !.name = op, !.ret = "none",
                   !.err = NoErr, !.ops = @ + 1]]
    /\ UNCHANGED <<now, agents, pagents, middleware, calls, crashed>>

\* Lock() returns to the goroutine that called it for op: no reader is left.
LockGranted(t, op) ==
    /\ ~crashed
    /\ threads[t].pc = "lock"
    /\ threads[t].name = op
    /\ ReadLocks(threads[t].agent) = {}

\* SetState, lines 109-115, with the lock
LockedSetState(t, h) ==
    /\ LockGranted(t, "setState")
    /\ agents' = [agents EXCEPT ![threads[t].agent] = AgentSetState(@, h, "direct")]
    /\ threads' = [threads EXCEPT ![t].pc = "idle", ![t].ret = "setState"]
    /\ UNCHANGED <<now, pagents, middleware, calls, crashed>>

\* Do, lines 119-148, with the lock
LockedDo(t) ==
    /\ LockGranted(t, "do")
    /\ LET a == threads[t].agent
           r == AgentDoEnter(agents[a])
       IN  /\ agents' = [agents EXCEPT ![a] = r.agent]
           /\ threads' = [threads EXCEPT ![t] =
                IF r.err = NoErr THEN [@ EXCEPT !.pc = "doCall"]
                ELSE [@ EXCEPT !.pc = "idle", !.ret = "do", !.err = r.err]]
    /\ UNCHANGED <<now, pagents, middleware, calls, crashed>>

\* Close, lines 68-71, with the lock
LockedClose(t) ==
    /\ LockGranted(t, "close")
    /\ LET a == threads[t].agent IN
       /\ agents' = [agents EXCEPT ![a] = AgentCloseEnter(@)]
       /\ threads' = [threads EXCEPT ![t].pc =
                        IF agents[a].client THEN "closeWait" ELSE "closeTail"]
    /\ UNCHANGED <<now, pagents, middleware, calls, crashed>>

NextInfo ==
    \/ \E t \in DOMAIN threads, a \in DOMAIN agents : InfoEnter(t, a)
    \/ \E t \in DOMAIN threads : InfoState(t)
    \/ \E t \in DOMAIN threads : InfoReturn(t)
    \/ \E t \in DOMAIN threads, a \in DOMAIN agents, op \in Writers : WriterArrive(t, a, op)
    \/ \E t \in DOMAIN threads, h \in ReportStates : LockedSetState(t, h)
    \/ \E t \in DOMAIN threads : LockedDo(t)
    \/ \E t \in DOMAIN threads : LockedClose(t)
    \/ \E t \in DOMAIN threads : ThreadDoCall(t)
    \/ \E t \in DOMAIN threads, e \in DirectOutcomes : ThreadDoReturn(t, e)
    \/ \E t \in DOMAIN threads : ThreadCloseWait(t)
    \/ \E t \in DOMAIN threads : ThreadCloseReturn(t)

SpecInfo == InitAgent /\ [][NextInfo]_vars

-----------------------------------------------------------------------------
(* utils.go *)

min(a, b) == IF a < b THEN a ELSE b

\* Every order in which a finite set can be enumerated.
RECURSIVE Orders(_)
Orders(S) ==
    IF S = {} THEN {<<>>}
    ELSE UNION {{<<x>> \o s : s \in Orders(S \ {x})} : x \in S}

\* values: the map's values, in the order the map happens to be ranged over
values(m) == {[k \in 1..Len(o) |-> m[o[k]]] : o \in Orders(DOMAIN m)}

\* filter, f given as a function to BOOLEAN
filter(f, xs) == SelectSeq(xs, LAMBDA x : f[x])

\* sortSlice: a copy, sorted by sort.Slice, which on a short slice is an
\* insertion sort by the given less, val, a function of two items to BOOLEAN
sortSlice(items, val) ==
    LET RECURSIVE Insert(_, _)
        Insert(r, x) ==
            IF r = <<>> THEN <<x>>
            ELSE IF val[x, r[Len(r)]]
                 THEN Insert(SubSeq(r, 1, Len(r) - 1), x) \o <<r[Len(r)]>>
            ELSE r \o <<x>>
        RECURSIVE InsertionSort(_)
        InsertionSort(r) ==
            IF r = <<>> THEN <<>>
            ELSE Insert(InsertionSort(SubSeq(r, 1, Len(r) - 1)), r[Len(r)])
    IN  InsertionSort(items)

\* shuffleSlice: every arrangement rand.Shuffle can leave
shuffleSlice(items) == {[k \in 1..Len(items) |-> items[o[k]]] : o \in Orders(1..Len(items))}

\* A split that leaves the first part empty.
splitSliceMutZero(items, index) == <<SubSeq(items, 1, 0), items>>

\* splitSlice
splitSlice(items, index) ==
    LET k == min(index, Len(items))
    IN  <<SubSeq(items, 1, k), SubSeq(items, k + 1, Len(items))>>

\* A concatenation that puts the healthy agents before the first stale one.
concatSliceMutOrder(a, b, c) == b \o a \o c

\* concatSlice, of three slices
concatSlice(a, b, c) == a \o b \o c

-----------------------------------------------------------------------------
(* The pool *)

Names == {"proxy1", "proxy2", "proxy3", "proxy4"}

\* Pool.mu is held: a caller is inside getOkAgents, or inside Delete
PoolLocked ==
    \/ \E c \in DOMAIN calls : calls[c].pc = "getOod"
    \/ \E t \in DOMAIN threads : threads[t].pc \in {"deleteWait", "deleteTail"}

\* An Add that replaces the agent a name is registered with.
PoolAddMutOverwrite(name, inst) ==
    /\ ~crashed
    /\ ~PoolLocked
    /\ agents' = [a \in DOMAIN agents \cup {inst} |->
                    IF a \in DOMAIN agents THEN agents[a]
                    ELSE NewProxyAgentWithLimiter(Burst)]
    /\ pagents' = [n \in DOMAIN pagents \cup {name} |->
                    IF n = name THEN inst ELSE pagents[n]]
    /\ UNCHANGED <<now, threads, middleware, calls, crashed>>

\* Pool.Add(name, agent): the agent is one the caller has just made (as
\* example/main.go does for each name) or one it made earlier; a name already
\* present is logged and the map left alone.
PoolAdd(name, inst) ==
    /\ ~crashed
    /\ ~PoolLocked
    /\ IF name \notin DOMAIN pagents
       THEN /\ agents' = [a \in DOMAIN agents \cup {inst} |->
                            IF a \in DOMAIN agents THEN agents[a]
                            ELSE NewProxyAgentWithLimiter(Burst)]
            /\ pagents' = [n \in DOMAIN pagents \cup {name} |->
                            IF n = name THEN inst ELSE pagents[n]]
       ELSE UNCHANGED <<agents, pagents>>
    /\ UNCHANGED <<now, threads, middleware, calls, crashed>>

\* Pool.Delete, lines 60-66: under p.mu, an absent name is an error; the agent of
\* a present one is closed, which starts as Close does.
PoolDeleteEnter(t, name) ==
    /\ Begin(t)
    /\ ~PoolLocked
    /\ IF name \notin DOMAIN pagents
       THEN /\ threads' = [threads EXCEPT ![t] =
                   [@ EXCEPT !.name = name, !.agent = "", !.ret = "delete",
                             !.err = ErrNotFound, !.ops = @ + 1]]
            /\ UNCHANGED agents
       ELSE LET a == pagents[name] IN
            /\ agents' = [agents EXCEPT ![a] = AgentCloseEnter(@)]
            /\ threads' = [threads EXCEPT ![t] =
                   [@ EXCEPT !.pc = IF agents[a].client THEN "deleteWait" ELSE "deleteTail",
                             !.name = name, !.agent = a, !.ret = "none",
                             !.err = NoErr, !.ops = @ + 1]]
    /\ UNCHANGED <<now, pagents, middleware, calls, crashed>>

\* Delete, line 66: Close waits, p.mu still held, until no Do is in flight.
PoolDeleteWait(t) ==
    /\ ~crashed
    /\ threads[t].pc = "deleteWait"
    /\ agents[threads[t].agent].wg = 0
    /\ threads' = [threads EXCEPT ![t].pc = "deleteTail"]
    /\ UNCHANGED <<now, agents, pagents, middleware, calls, crashed>>

\* Delete, lines 66-68: Close returns, the name is removed, p.mu released.
PoolDeleteReturn(t) ==
    /\ ~crashed
    /\ threads[t].pc = "deleteTail"
    /\ agents' = [agents EXCEPT ![threads[t].agent].client = FALSE]
    /\ pagents' = [n \in DOMAIN pagents \ {threads[t].name} |-> pagents[n]]
    /\ threads' = [threads EXCEPT ![t].pc = "idle", ![t].ret = "delete"]
    /\ UNCHANGED <<now, middleware, calls, crashed>>

\* Pool.List: the names, in the order the map happens to be ranged over
PoolList(t) ==
    /\ Begin(t)
    /\ ~PoolLocked
    /\ \E o \in Orders(DOMAIN pagents) :
         threads' = [threads EXCEPT ![t] =
            [@ EXCEPT !.name = "", !.agent = "", !.ret = "list", !.err = NoErr,
                      !.result = o, !.ops = @ + 1]]
    /\ UNCHANGED <<now, agents, pagents, middleware, calls, crashed>>

\* a.LastRequestTime().Before(b.LastRequestTime())
Before(a, b) == agents[a].lastRequestTime < agents[b].lastRequestTime

\* Pool.getAgents: every slice it can return
getAgents(health) ==
    LET has == [a \in DOMAIN agents |-> AgentState(agents[a]).State = health]
        val == [a \in DOMAIN agents, b \in DOMAIN agents |-> Before(a, b)]
    IN  {sortSlice(filter(has, vs), val) : vs \in values(pagents)}

\* Pool.getOkAgents, line 85-86, given the healthy agents: every slice it can return
getOkAgents(healthyAgents) ==
    {LET sp == splitSlice(sh, 1) IN concatSlice(sp[1], healthyAgents, sp[2]) :
        sh \in UNION {shuffleSlice(ood) : ood \in getAgents(OutOfDate)}}

-----------------------------------------------------------------------------
(* Pool.Do: each caller makes one request *)

NoResponse == [StatusCode |-> 0, Header |-> "", Body |-> ""]

\* The response an agent's proxy delivers: its headers and body name the agent.
Response(a, status) == [StatusCode |-> status, Header |-> a, Body |-> a]

NoContext ==
    [Err |-> NoErr, Agent |-> "", Retry |-> FALSE, Response |-> NoResponse, Body |-> ""]

\* newContext: an error makes a context holding it; a response is read to its
\* end into Body and its stream closed, and a failed read is newContext's error.
newContext(agent, res, err, readable) ==
    IF err # NoErr
    THEN [ctx |-> [NoContext EXCEPT !.Err = err, !.Agent = agent], err |-> NoErr]
    ELSE IF ~readable THEN [ctx |-> NoContext, err |-> ErrReadBody]
    ELSE [ ctx |-> [NoContext EXCEPT !.Agent = agent, !.Body = res.Body,
                                     !.Response = [res EXCEPT !.Body = ""]],
           err |-> NoErr ]

\* A response rebuilt around the stream that newContext has read and closed.
RebuildMutStream(ctx) == ctx.Response

\* Lines 177-191: the response rebuilt from the context's status, headers and
\* buffered body
Rebuild(ctx) == [ctx.Response EXCEPT !.Body = ctx.Body]

\* The context's error looked at before its retry flag.
DecideMutErrFirst(ctx) ==
    IF ctx.Err # NoErr THEN [again |-> FALSE, res |-> NoResponse, err |-> ctx.Err]
    ELSE IF ctx.Retry THEN [again |-> TRUE, res |-> NoResponse, err |-> NoErr]
    ELSE [again |-> FALSE, res |-> Rebuild(ctx), err |-> NoErr]

\* Lines 171-192: continue on retry; else the context's error; else the response
Decide(ctx) ==
    IF ctx.Retry THEN [again |-> TRUE, res |-> NoResponse, err |-> NoErr]
    ELSE IF ctx.Err # NoErr THEN [again |-> FALSE, res |-> NoResponse, err |-> ctx.Err]
    ELSE [again |-> FALSE, res |-> Rebuild(ctx), err |-> NoErr]

\* A request body: no body at all (req.Body == nil), or a stream of bytes that
\* is read once, front to end, and may fail while it is read.
NilBody == [nil |-> TRUE, data |-> "", eof |-> TRUE, broken |-> FALSE, reads |-> 0]
Stream(data, broken) ==
    [nil |-> FALSE, data |-> data, eof |-> FALSE, broken |-> broken, reads |-> 0]

\* []byte: nil, or the bytes
NilBytes == [nil |-> TRUE, bytes |-> ""]
Bytes(b) == [nil |-> FALSE, bytes |-> b]

\* io.ReadAll: what is left of the stream, the stream at its end, the error
ReadAll(body) ==
    [ bytes |-> Bytes(IF body.eof THEN "" ELSE body.data),
      body  |-> [body EXCEPT !.eof = TRUE, !.reads = @ + 1],
      err   |-> IF body.broken /\ ~body.eof THEN ErrReadRequest ELSE NoErr ]

\* io.NopCloser(bytes.NewReader(b))
NewReader(b) == Stream(b.bytes, FALSE)

\* A factory whose clone keeps the request's own stream.
factoryMutOriginal(call) == call.body

\* factory(), lines 146-152: the body of the clone handed to one attempt
factory(call) == IF call.bodyBytes.nil THEN call.body ELSE NewReader(call.bodyBytes)

\* The bodies a caller's request comes with.
Bodies == {NilBody, Stream("payload", FALSE), Stream("payload", TRUE)}

NewCall ==
    [ pc |-> "read", body |-> NilBody, bodyBytes |-> NilBytes, sent |-> NilBody,
      delivered |-> <<>>,
      healthy |-> <<>>, cands |-> <<>>, i |-> 0, ctx |-> NoContext,
      err |-> NoErr, res |-> NoResponse, tried |-> <<>>, attempts |-> 0 ]

\* What the transport of a passed a.Do can end in: an error, or a response with
\* a status, whose body may fail to be read to its end.
TransportErrors == {ErrCanceled, ErrDeadline, ErrTransport}
Statuses == {200, 403}
Outcomes ==
    {[err |-> e, status |-> 0, readable |-> FALSE] : e \in TransportErrors}
    \cup {[err |-> NoErr, status |-> st, readable |-> TRUE] : st \in Statuses}
    \cup {[err |-> NoErr, status |-> 200, readable |-> FALSE]}

\* The loop's cap checked one attempt late.
LoopCappedMutLate(i) == i > MaxRetry

\* i+1 > MaxRetry
LoopCapped(i) == i + 1 > MaxRetry

\* A check that takes no error for the cancellation.
IsCanceledMutNever(err) == FALSE

\* errors.Is(err, context.Canceled)
IsCanceled(err) == err = ErrCanceled

\* The transport sends the request it was handed: it reads the request's body,
\* when there is one, to its end.
Transmit(call) ==
    IF call.sent.nil THEN [call EXCEPT !.delivered = Append(@, NilBytes)]
    ELSE LET r == ReadAll(call.sent)
         IN  [call EXCEPT !.sent = r.body, !.delivered = Append(@, r.bytes)]

\* Pool.Do returns (res, err)
Return(c, res, err, entry) ==
    [calls[c] EXCEPT !.pc = "done", !.res = res, !.err = err, !.ctx = NoContext,
                     !.tried = IF entry = <<>> THEN @ ELSE Append(@, entry[1])]

Tried(ctx, policy) ==
    [agent |-> ctx.Agent, err |-> ctx.Err, status |-> ctx.Response.StatusCode,
     retry |-> ctx.Retry, policy |-> policy]

\* Lines 136-145: a request's body is read to its end into bodyBytes; a failed
\* read is returned.
DoReadBody(c) ==
    /\ ~crashed
    /\ calls[c].pc = "read"
    /\ LET r == ReadAll(calls[c].body) IN
       calls' = [calls EXCEPT ![c] =
           IF calls[c].body.nil THEN [@ EXCEPT !.pc = "start"]
           ELSE IF r.err # NoErr
                THEN [Return(c, NoResponse, r.err, <<>>) EXCEPT !.body = r.body]
           ELSE [@ EXCEPT !.pc = "start", !.body = r.body, !.bodyBytes = r.bytes]]
    /\ UNCHANGED <<now, agents, threads, pagents, middleware, crashed>>

\* Pool.Do enters getOkAgents: p.mu is taken and getAgents(Ok) evaluated (line 84).
DoGetHealthy(c) ==
    /\ ~crashed
    /\ calls[c].pc = "start"
    /\ ~PoolLocked
    /\ \E h \in getAgents(Ok) :
         calls' = [calls EXCEPT ![c].pc = "getOod", ![c].healthy = h]
    /\ UNCHANGED <<now, agents, threads, pagents, middleware, crashed>>

\* getOkAgents, lines 85-87: the out-of-date agents are shuffled and split, the
\* three slices joined, p.mu released.
DoGetCands(c) ==
    /\ ~crashed
    /\ calls[c].pc = "getOod"
    /\ \E r \in getOkAgents(calls[c].healthy) :
         calls' = [calls EXCEPT ![c].pc = "loop", ![c].cands = r, ![c].i = 0]
    /\ UNCHANGED <<now, agents, threads, pagents, middleware, crashed>>

\* Lines 154-158 and 194: the range is over, or the cap stops it.
DoExhausted(c) ==
    /\ ~crashed
    /\ calls[c].pc = "loop"
    /\ calls[c].i >= Len(calls[c].cands) \/ LoopCapped(calls[c].i)
    /\ calls' = [calls EXCEPT ![c] = Return(c, NoResponse, ErrNoHealthyAgents, <<>>)]
    /\ UNCHANGED <<now, agents, threads, pagents, middleware, crashed>>

\* An attempt that asks for the candidates anew and takes the one at its index.
CandidateMutRecompute(call) ==
    LET h == CHOOSE x \in getAgents(Ok) : TRUE
        fresh == CHOOSE r \in getOkAgents(h) : TRUE
    IN  IF call.i + 1 <= Len(fresh) THEN fresh[call.i + 1] ELSE call.cands[call.i + 1]

\* Line 154: the agent the range is at, in the slice getOkAgents returned
Candidate(call) == call.cands[call.i + 1]

\* Line 162: a.Do is called; its locked section runs.  A refusal (closed, rate
\* limited) comes back at once, is no cancellation, and becomes the context's
\* error (lines 110-118).
DoAttempt(c) ==
    /\ ~crashed
    /\ calls[c].pc = "loop"
    /\ calls[c].i < Len(calls[c].cands)
    /\ ~LoopCapped(calls[c].i)
    /\ LET a == Candidate(calls[c])
           r == AgentDoEnter(agents[a])
       IN  /\ agents' = [agents EXCEPT ![a] = r.agent]
           /\ calls' = [calls EXCEPT ![c] =
                [@ EXCEPT !.pc = IF r.err = NoErr THEN "doCall" ELSE "policy",
                          !.attempts = @ + 1,
                          !.sent = factory(calls[c]),
                          !.ctx = IF r.err = NoErr THEN [NoContext EXCEPT !.Agent = a]
                                  ELSE newContext(a, NoResponse, r.err, FALSE).ctx]]
    /\ UNCHANGED <<now, threads, pagents, middleware, crashed>>

\* Agent.Do, line 149, inside Pool.Do: a.client is read.
DoCall(c) ==
    /\ ~crashed
    /\ calls[c].pc = "doCall"
    /\ LET a == calls[c].ctx.Agent IN
       IF agents[a].client
       THEN /\ calls' = [calls EXCEPT ![c].pc = "transport"]
            /\ UNCHANGED <<agents, crashed>>
       ELSE /\ calls' = [calls EXCEPT ![c].pc = "panic"]
            /\ agents' = [agents EXCEPT ![a] = AgentDone(@)]
            /\ crashed' = TRUE
    /\ UNCHANGED <<now, threads, pagents, middleware>>

\* The transport call has sent the request and returns (wg.Done runs), and lines
\* 163-169 follow: a cancellation is returned as it is; newContext reads the
\* response's body and fails when it cannot; otherwise the context is handed to
\* the policy.
DoTransport(c, o) ==
    /\ ~crashed
    /\ calls[c].pc = "transport"
    /\ LET a == calls[c].ctx.Agent
           res == IF o.err = NoErr THEN Response(a, o.status) ELSE NoResponse
           nc == newContext(a, res, o.err, o.readable)
           next == IF IsCanceled(o.err)
                   THEN Return(c, NoResponse, o.err,
                               <<Tried([NoContext EXCEPT !.Agent = a, !.Err = o.err], FALSE)>>)
                   ELSE IF nc.err # NoErr
                   THEN Return(c, NoResponse, nc.err,
                               <<Tried([NoContext EXCEPT !.Agent = a, !.Err = nc.err], FALSE)>>)
                   ELSE [calls[c] EXCEPT !.pc = "policy", !.ctx = nc.ctx]
       IN  /\ agents' = [agents EXCEPT ![a] = AgentDone(@)]
           /\ calls' = [calls EXCEPT ![c] = Transmit(next)]
    /\ UNCHANGED <<now, threads, pagents, middleware, crashed>>

\* The policy of example/main.go, lines 24-37: what it reports and whether it
\* asks for a retry.
ReferencePolicy(ctx) ==
    IF ctx.Err # NoErr THEN [set |-> TRUE, state |-> Error, msg |-> ctx.Err, retry |-> TRUE]
    ELSE IF ctx.Response.StatusCode = 403
         THEN [set |-> TRUE, state |-> Banned, msg |-> "403", retry |-> TRUE]
    ELSE [set |-> TRUE, state |-> Ok, msg |-> "", retry |-> FALSE]

\* A policy that does nothing: func(c *Context) {}.  Retry keeps its zero value.
PassivePolicy(ctx) == [set |-> FALSE, state |-> Unknown, msg |-> "", retry |-> FALSE]

\* A policy that always asks for a retry and reports nothing.
InsistentPolicy(ctx) == [set |-> FALSE, state |-> Unknown, msg |-> "", retry |-> TRUE]

\* The policies a pool is made with here.
Policies == {"reference", "passive", "insistent"}

\* p.middleware(c): what the pool's policy decides
Policy(ctx) ==
    CASE middleware = "reference" -> ReferencePolicy(ctx)
      [] middleware = "passive" -> PassivePolicy(ctx)
      [] middleware = "insistent" -> InsistentPolicy(ctx)

\* Lines 170-193: the policy runs; then retry, the context's error, or the
\* response rebuilt from the context.
DoPolicy(c) ==
    /\ ~crashed
    /\ calls[c].pc = "policy"
    /\ LET d == Policy(calls[c].ctx)
           ctx == [calls[c].ctx EXCEPT !.Retry = d.retry]
           a == ctx.Agent
           dec == Decide(ctx)
       IN  /\ agents' = [agents EXCEPT ![a] =
                           IF d.set THEN AgentSetState(@, d.state, d.msg) ELSE @]
           /\ calls' = [calls EXCEPT ![c] =
                IF dec.again
                THEN [@ EXCEPT !.pc = "loop", !.i = @ + 1, !.ctx = NoContext,
                               !.tried = Append(@, Tried(ctx, TRUE))]
                ELSE Return(c, dec.res, dec.err, <<Tried(ctx, TRUE)>>)]
    /\ UNCHANGED <<now, threads, pagents, middleware, crashed>>

Callers == {"c1"}

\* New(fn): an empty pool holding the caller's policy.
Init ==
    /\ now = StartTime
    /\ agents = <<>>
    /\ threads = <<>>
    /\ pagents = <<>>
    /\ middleware \in Policies
    /\ \E b \in Bodies : calls = [c \in Callers |-> [NewCall EXCEPT !.body = b]]
    /\ crashed = FALSE

Next ==
    \/ \E name \in Names : PoolAdd(name, name)
    \/ \E c \in DOMAIN calls : DoReadBody(c)
    \/ \E c \in DOMAIN calls : DoGetHealthy(c)
    \/ \E c \in DOMAIN calls : DoGetCands(c)
    \/ \E c \in DOMAIN calls : DoExhausted(c)
    \/ \E c \in DOMAIN calls : DoAttempt(c)
    \/ \E c \in DOMAIN calls : DoCall(c)
    \/ \E c \in DOMAIN calls, o \in Outcomes : DoTransport(c, o)
    \/ \E c \in DOMAIN calls : DoPolicy(c)
    \/ Tick(MaxPoolTime)

Spec == Init /\ [][Next]_vars

-----------------------------------------------------------------------------
(* The pool used by several goroutines: one inside Pool.Do, the others adding,
   deleting and listing agents, and reporting on and closing agents directly,
   all within one instant of the clock *)

PoolNames == {"proxy1", "proxy2", "proxy3"}

\* The agent a name is added with: one made for it, or the one made for proxy1.
InstancesOf(name) == {name, "proxy1"}

PoolThreads == {"t1"}

\* What the other goroutines report about an agent.
PoolReports == {Ok, Error}

\* What a transport call ends in while the pool is shared: an error that is no
\* cancellation, or a response read to its end.
PoolOutcomes ==
    {o \in Outcomes : (o.err = ErrTransport) \/ (o.status = 200 /\ o.readable)}

InitPool ==
    /\ now = StartTime
    /\ agents = <<>>
    /\ threads = [t \in PoolThreads |-> IdleThread]
    /\ pagents = <<>>
    /\ middleware = "reference"
    /\ calls = [c \in Callers |-> NewCall]
    /\ crashed = FALSE

NextPool ==
    \/ \E name \in PoolNames : \E inst \in InstancesOf(name) : PoolAdd(name, inst)
    \/ \E t \in DOMAIN threads, name \in PoolNames : PoolDeleteEnter(t, name)
    \/ \E t \in DOMAIN threads : PoolDeleteWait(t)
    \/ \E t \in DOMAIN threads : PoolDeleteReturn(t)
    \/ \E t \in DOMAIN threads : PoolList(t)
    \/ \E t \in DOMAIN threads, a \in DOMAIN agents, h \in PoolReports :
         ThreadSetState(t, a, h)
    \/ \E t \in DOMAIN threads, a \in DOMAIN agents : ThreadCloseEnter(t, a)
    \/ \E t \in DOMAIN threads : ThreadCloseWait(t)
    \/ \E t \in DOMAIN threads : ThreadCloseReturn(t)
    \/ \E c \in DOMAIN calls : DoReadBody(c)
    \/ \E c \in DOMAIN calls : DoGetHealthy(c)
    \/ \E c \in DOMAIN calls : DoGetCands(c)
    \/ \E c \in DOMAIN calls : DoExhausted(c)
    \/ \E c \in DOMAIN calls : DoAttempt(c)
    \/ \E c \in DOMAIN calls : DoCall(c)
    \/ \E c \in DOMAIN calls, o \in PoolOutcomes : DoTransport(c, o)
    \/ \E c \in DOMAIN calls : DoPolicy(c)

SpecPool == InitPool /\ [][NextPool]_vars

-----------------------------------------------------------------------------
(* getOkAgents over drawn pool contents *)

OrderNames == {"proxy1", "proxy2", "proxy3", "proxy4", "proxy5"}

\* The instant at which the candidates are computed.
OrderTime == StartTime + 2 * TickSeconds

\* The tokens of a pool agent that served `uses` requests `ticks` Ticks ago.
TokensAfter(uses, ticks) == min(Burst * Scale, Burst * Scale - uses * Scale + ticks)

\* An agent as earlier requests, reports and closes can have left it by
\* OrderTime: closed or not, its requests and how many Ticks ago they were, its
\* report's state.  A report is of the instant of the request it classifies.
Profile(closed, uses, ticks, h) ==
    LET at == IF uses = 0 THEN ZeroTime ELSE OrderTime - ticks * TickSeconds
    IN  [NewProxyAgentWithLimiter(Burst) EXCEPT
            !.closed = closed, !.client = ~closed,
            !.tokens = TokensAfter(uses, ticks),
            !.state = StateReport(h, IF uses = 0 THEN "" ELSE "direct", at),
            !.requests = uses,
            !.lastRequestTime = at]

Profiles ==
    { Profile(FALSE, 1, 2, Ok),
      Profile(FALSE, 1, 1, Ok),
      Profile(FALSE, 1, 0, Ok),
      Profile(FALSE, 1, 2, Error),
      Profile(FALSE, 0, 0, Unknown),
      Profile(FALSE, 1, 1, Banned),
      Profile(FALSE, 2, 1, Ok),
      Profile(TRUE, 1, 1, Ok) }

InitOrder ==
    /\ now = OrderTime
    /\ agents \in [OrderNames -> Profiles]
    /\ threads = <<>>
    /\ pagents = [n \in OrderNames |-> n]
    /\ middleware = "reference"
    /\ calls = [c \in Callers |-> [NewCall EXCEPT !.pc = "start"]]
    /\ crashed = FALSE

NextOrder ==
    \/ \E c \in DOMAIN calls : DoGetHealthy(c)
    \/ \E c \in DOMAIN calls : DoGetCands(c)
    \/ \E c \in DOMAIN calls : DoAttempt(c)

SpecOrder == InitOrder /\ [][NextOrder]_vars

-----------------------------------------------------------------------------
(* Claims about the agent, under SpecAgent *)

\* C2: for every closed flag, token count and explicit report (state, age),
\* State() is Closed when closed; else Unavailable when fewer than one token is
\* available; else OutOfDate when the report is not Ok and strictly older than
\* 300 s; else the report verbatim.  So an Ok report never reads OutOfDate, and an
\* Error report reads Error up to and including 300 s and OutOfDate above.
C2_StatePriorityChain ==
    \A a \in DOMAIN agents :
        LET ag == agents[a]
            r == AgentState(ag)
            age == now - ag.state.Timestamp
            open == ~ag.closed /\ ag.tokens >= 1 * Scale
        IN  /\ ag.closed => r.State = Closed
            /\ (~ag.closed /\ ag.tokens < 1 * Scale) => r.State = Unavailable
            /\ (open /\ ag.state.State # Ok /\ age > 300) => r.State = OutOfDate
            /\ (open /\ ~(ag.state.State # Ok /\ age > 300)) => r = ag.state
            /\ ag.state.State = Ok => r.State # OutOfDate
            /\ (open /\ ag.state.State = Error /\ age <= 300) => r.State = Error
            /\ (open /\ ag.state.State = Error /\ age > 300) => r.State = OutOfDate

\* C2's case: an open agent with a token whose Error report is exactly 300 s old
\* reads Error.
C2_Witness ==
    \E a \in DOMAIN agents :
        /\ ~agents[a].closed
        /\ agents[a].tokens >= Scale
        /\ agents[a].state.State = Error
        /\ now - agents[a].state.Timestamp = 300
        /\ AgentState(agents[a]).State = Error

\* C9: no close() has returned while a do() on the same agent is still in its
\* transport call.
C9_NoCloseReturnsDuringDo ==
    \A t \in DOMAIN threads, u \in DOMAIN threads :
        ~ /\ threads[t].pc = "idle"
          /\ threads[t].ret = "close"
          /\ threads[u].pc = "transport"
          /\ threads[u].agent = threads[t].agent

\* C10: once the closed flag is set it stays set, State() reads Closed, and every
\* do() entered returns the Closed error at once without taking a token, counting
\* a request or stamping the last-request instant, also with no token available.
C10_ClosedIsFinal ==
    [][\A a \in DOMAIN agents :
         agents[a].closed =>
           /\ agents'[a].closed
           /\ AgentState(agents[a])'.State = Closed
           /\ agents'[a].requests = agents[a].requests
           /\ agents'[a].lastRequestTime = agents[a].lastRequestTime
           /\ agents'[a].tokens >= agents[a].tokens
           /\ \A t \in DOMAIN threads :
                ( /\ threads'[t].ops = threads[t].ops + 1
                  /\ threads'[t].agent = a
                  /\ (threads'[t].pc = "doCall" \/ threads'[t].ret = "do") )
                => /\ threads'[t].pc = "idle"
                   /\ threads'[t].err = ErrAgentClosed]_vars

\* C10's case: a do() on a closed agent whose rate gate is empty has returned
\* the Closed error.
C10_Witness ==
    \E t \in DOMAIN threads :
        /\ threads[t].pc = "idle"
        /\ threads[t].ret = "do"
        /\ threads[t].err = ErrAgentClosed
        /\ agents[threads[t].agent].closed
        /\ agents[threads[t].agent].tokens < Scale
        /\ agents[threads[t].agent].requests = 1

\* A close() on the agent has returned.
CloseReturned(a) ==
    \E t \in DOMAIN threads :
        threads[t].agent = a /\ threads[t].pc = "idle" /\ threads[t].ret = "close"

\* C11: State() reads Closed if and only if a close() on the agent has returned;
\* so it does not read Closed while the first close() still waits for the do()
\* calls in flight.
C11_ClosedIffCloseReturned ==
    \A a \in DOMAIN agents :
        (AgentState(agents[a]).State = Closed) <=> CloseReturned(a)

\* Thread t enters close() on agent a in this step.
EntersClose(t, a) ==
    /\ threads[t].pc = "idle"
    /\ threads'[t].pc \in {"closeWait", "closeTail"}
    /\ threads'[t].agent = a

\* The fields close() may not disturb once the agent is closed.
SameAfterClose(a) ==
    /\ agents'[a].closed = agents[a].closed
    /\ agents'[a].state = agents[a].state
    /\ agents'[a].requests = agents[a].requests
    /\ agents'[a].lastRequestTime = agents[a].lastRequestTime
    /\ agents'[a].client = agents[a].client

\* C12: a close() on an agent already closed finds no client, so it releases
\* nothing and waits for nothing, goes straight to its return without a panic,
\* and leaves the closed flag, the explicit report, the request counter and the
\* last-request instant as the first close() left them.
C12_CloseIdempotent ==
    [][\A t \in DOMAIN threads, a \in DOMAIN agents :
         /\ (agents[a].closed /\ EntersClose(t, a))
            => /\ threads'[t].pc = "closeTail"
               /\ SameAfterClose(a)
               /\ ~crashed'
         /\ (agents[a].closed /\ threads[t].pc = "closeTail" /\ threads[t].agent = a
             /\ threads'[t].pc # "closeTail")
            => /\ threads'[t].pc = "idle"
               /\ threads'[t].ret = "close"
               /\ SameAfterClose(a)
               /\ ~crashed']_vars

\* C12's case: two close() calls on an agent that has served a request have
\* both returned.
C12_Witness ==
    \E t, u \in DOMAIN threads :
        /\ t # u
        /\ threads[t].pc = "idle" /\ threads[t].ret = "close"
        /\ threads[u].pc = "idle" /\ threads[u].ret = "close"
        /\ threads[t].agent = threads[u].agent
        /\ agents[threads[t].agent].requests = 1
        /\ agents[threads[t].agent].closed
        /\ ~crashed

\* Thread t enters do() on agent a in this step.
EntersDo(t, a) ==
    /\ threads[t].pc = "idle"
    /\ threads'[t].ops = threads[t].ops + 1
    /\ threads'[t].agent = a
    /\ threads'[t].pc = "doCall" \/ (threads'[t].pc = "idle" /\ threads'[t].ret = "do")

\* C13: a do() on an agent that is not closed is either denied by the rate gate
\* (the rate-limited error, the agent untouched, no transport call) or takes
\* exactly one token, counts exactly one request, stamps the last-request
\* instant with now and goes on to one transport call, whose result it returns
\* as it is, the counter, instant and tokens standing whatever that result.  In
\* every step the counter grows by the number of do() calls that pass the checks.
C13_DoDeniedOrCounted ==
    [][\A a \in DOMAIN agents :
         /\ \A t \in DOMAIN threads :
              /\ (~agents[a].closed /\ EntersDo(t, a)) =>
                   \/ /\ agents[a].tokens < Scale
                      /\ threads'[t].pc = "idle"
                      /\ threads'[t].err = ErrRateLimit
                      /\ agents'[a] = agents[a]
                   \/ /\ agents[a].tokens >= Scale
                      /\ threads'[t].pc = "doCall"
                      /\ agents'[a].tokens = agents[a].tokens - Scale
                      /\ agents'[a].requests = agents[a].requests + 1
                      /\ agents'[a].lastRequestTime = now
              /\ (threads[t].pc = "doCall" /\ threads[t].agent = a /\ ~agents[a].closed
                  /\ threads'[t].pc # "doCall")
                 => threads'[t].pc = "transport"
              /\ (threads[t].pc = "transport" /\ threads[t].agent = a
                  /\ threads'[t].pc # "transport")
                 => /\ threads'[t].pc = "idle"
                    /\ threads'[t].ret = "do"
                    /\ threads'[t].err \in DirectOutcomes
                    /\ agents'[a].requests = agents[a].requests
                    /\ agents'[a].lastRequestTime = agents[a].lastRequestTime
                    /\ agents'[a].tokens = agents[a].tokens
         /\ agents'[a].requests = agents[a].requests +
              Cardinality({t \in DOMAIN threads :
                             threads[t].pc = "idle" /\ threads'[t].pc = "doCall"
                             /\ threads'[t].agent = a})]_vars

\* C13's case: one do() was denied by the rate gate, another passed and its
\* transport call failed; one request is counted, stamped with its instant.
C13_Witness ==
    \E t, u \in DOMAIN threads :
        /\ threads[t].pc = "idle" /\ threads[t].ret = "do"
        /\ threads[t].err = ErrTransport
        /\ threads[u].pc = "idle" /\ threads[u].ret = "do"
        /\ threads[u].err = ErrRateLimit
        /\ threads[u].agent = threads[t].agent
        /\ ~agents[threads[t].agent].closed
        /\ agents[threads[t].agent].requests = 1
        /\ agents[threads[t].agent].lastRequestTime >= StartTime
        /\ agents[threads[t].agent].tokens < Scale

\* C17: an Info() holding the agent's read lock is never left waiting for that
\* lock a second time behind a writer that waits for Info()'s first read lock
\* to be released: Info() always gets on to its return.
C17_InfoNeverBlocked ==
    \A t \in DOMAIN threads :
        threads[t].pc = "info" => ~WriterPending(threads[t].agent)

\* C16: a do() that passed the closed check and the rate gate makes its transport
\* call on a transport client: none finds the agent's client detached by a
\* close(), and no nil dereference ends the process.
C16_NoNilTransport ==
    /\ ~crashed
    /\ \A t \in DOMAIN threads :
           /\ threads[t].pc # "panic"
           /\ threads[t].pc = "transport" => agents[threads[t].agent].wg > 0

-----------------------------------------------------------------------------
(* Claims about Pool.Do, under Spec *)

Done(c) == calls[c].pc = "done"

AllRetried(tr) == \A k \in 1..Len(tr) : tr[k].policy /\ tr[k].retry

\* The request came without a body or its body was read into the buffer, so the
\* call went on to ask for its candidates.
Buffered(c) == calls[c].body.nil \/ ~calls[c].bodyBytes.nil

\* C3: one Pool.Do invokes Agent.Do at most 3 times whatever the snapshot's
\* length and the policy's answers; when the first 3 attempts are all marked
\* retry the call returns "no healthy agents", a 4th candidate or not.
C3_AtMostThreeAttempts ==
    \A c \in DOMAIN calls :
        /\ calls[c].attempts <= 3
        /\ ( /\ Done(c)
             /\ Len(calls[c].tried) >= 3
             /\ \A k \in 1..3 : calls[c].tried[k].retry )
           => /\ calls[c].err = ErrNoHealthyAgents
              /\ calls[c].attempts = 3

\* C3's case: three attempts, all marked retry, a fourth candidate left untried.
C3_Witness ==
    \E c \in DOMAIN calls :
        /\ Done(c)
        /\ Len(calls[c].cands) >= 4
        /\ calls[c].attempts = 3
        /\ AllRetried(calls[c].tried)
        /\ calls[c].err = ErrNoHealthyAgents

C5_CancelReturnsAtOnce ==
    [][\A c \in DOMAIN calls :
         /\ ( /\ calls[c].pc = "transport"
              /\ \/ calls'[c].ctx.Err = ErrCanceled
                 \/ /\ Len(calls'[c].tried) > Len(calls[c].tried)
                    /\ calls'[c].tried[Len(calls'[c].tried)].err = ErrCanceled )
            => /\ calls'[c].pc = "done"
               /\ calls'[c].err = ErrCanceled
               /\ ~calls'[c].tried[Len(calls'[c].tried)].policy
               /\ \A a \in DOMAIN agents : agents'[a].state = agents[a].state
         /\ (Done(c) /\ calls[c].err = ErrCanceled)
            => (calls'[c] = calls[c] /\ calls[c].attempts = Len(calls[c].tried))]_vars

\* C5's case: a call ended by a cancellation with candidates left untried and
\* the cancelled agent's report still the one it was made with.
C5_Witness ==
    \E c \in DOMAIN calls :
        /\ Done(c)
        /\ calls[c].err = ErrCanceled
        /\ middleware = "reference"
        /\ Len(calls[c].cands) > Len(calls[c].tried)
        /\ LET tr == calls[c].tried
           IN  /\ tr[Len(tr)].err = ErrCanceled
               /\ agents[tr[Len(tr)].agent].state = StateReport(Unknown, "", ZeroTime)

\* C6: an attempt whose Agent.Do fails because the caller's deadline expired ends
\* Pool.Do at once with that error, the policy not invoked and no further
\* candidate attempted, as for a cancel.
C6_DeadlineReturnsAtOnce ==
    \A c \in DOMAIN calls :
        \A k \in 1..Len(calls[c].tried) :
            calls[c].tried[k].err = ErrDeadline =>
                /\ ~calls[c].tried[k].policy
                /\ k = Len(calls[c].tried)
                /\ Done(c)
                /\ calls[c].err = ErrDeadline

\* The scenario of C7: the pool holds one agent, it is the one candidate, its
\* transport failed (not by cancellation) in every attempt made, and the policy
\* marks an errored attempt for retry.
C7_Scenario(c) ==
    /\ Done(c)
    /\ Cardinality(DOMAIN pagents) = 1
    /\ Len(calls[c].cands) = 1
    /\ middleware \in {"reference", "insistent"}
    /\ \A k \in 1..Len(calls[c].tried) :
           calls[c].tried[k].err \in {ErrTransport, ErrDeadline}

\* C7 as stated: in that scenario the call makes exactly 3 attempts and then
\* returns "no healthy agents".
C7_ThreeAttemptsOnOneAgent ==
    \A c \in DOMAIN calls :
        C7_Scenario(c) => (calls[c].attempts = 3 /\ calls[c].err = ErrNoHealthyAgents)

\* C7 as amended: in that scenario the call makes exactly 1 attempt, the
\* candidate list having one entry, and then returns "no healthy agents".
C7_OneAttemptOnOneAgent ==
    \A c \in DOMAIN calls :
        C7_Scenario(c) => (calls[c].attempts = 1 /\ calls[c].err = ErrNoHealthyAgents)

\* C7's case: the scenario, ended after the one attempt.
C7_Witness ==
    \E c \in DOMAIN calls :
        /\ C7_Scenario(c)
        /\ middleware = "reference"
        /\ Len(calls[c].tried) = 1
        /\ calls[c].tried[1].err = ErrTransport
        /\ calls[c].tried[1].retry

\* The scenario of C8: the reference policy, two candidates, the first answered
\* 403 and the second 200.
C8_Scenario(c) ==
    /\ Done(c)
    /\ middleware = "reference"
    /\ Len(calls[c].cands) = 2
    /\ Len(calls[c].tried) = 2
    /\ calls[c].tried[1].err = NoErr /\ calls[c].tried[1].status = 403
    /\ calls[c].tried[2].err = NoErr /\ calls[c].tried[2].status = 200

\* C8: in that scenario Pool.Do returns the 200 response; afterwards the first
\* agent's explicit report is Banned (and State() reads Banned while it has a
\* token and the report is under 300 s old) and the second agent's is Ok.
C8_BannedThenOk ==
    \A c \in DOMAIN calls :
        C8_Scenario(c) =>
            LET first == agents[calls[c].cands[1]]
                second == agents[calls[c].cands[2]]
            IN  /\ calls[c].err = NoErr
                /\ calls[c].res.StatusCode = 200
                /\ calls[c].res.Body = calls[c].cands[2]
                /\ first.state.State = Banned
                /\ second.state.State = Ok
                /\ (first.tokens >= Scale /\ now - first.state.Timestamp < 300)
                   => AgentState(first).State = Banned

\* C8's case: the scenario, with the first agent holding a token again.
C8_Witness ==
    \E c \in DOMAIN calls :
        /\ C8_Scenario(c)
        /\ agents[calls[c].cands[1]].tokens >= Scale
        /\ AgentState(agents[calls[c].cands[1]]).State = Banned

\* C14: for a request with a non-empty body, the request's own stream is read
\* exactly once, before the candidates are asked for, and every transport call
\* the request reaches, up to 3 of them, is handed the whole of the original
\* body, whatever the attempts before it have read.
C14_BodyReplayed ==
    \A c \in DOMAIN calls :
        (~calls[c].body.nil /\ calls[c].body.data # "") =>
            /\ calls[c].body.reads = IF calls[c].pc = "read" THEN 0 ELSE 1
            /\ Len(calls[c].delivered) <= 3
            /\ \A k \in 1..Len(calls[c].delivered) :
                   calls[c].delivered[k] = Bytes(calls[c].body.data)

\* C14's case: a request with a body has been sent through three agents.
C14_Witness ==
    \E c \in DOMAIN calls :
        /\ Done(c)
        /\ calls[c].body.data = "payload"
        /\ calls[c].body.reads = 1
        /\ Len(calls[c].delivered) = 3
        /\ \A k \in 1..3 : calls[c].delivered[k] = Bytes("payload")
        /\ Cardinality({calls[c].tried[k].agent : k \in 1..3}) = 3

-----------------------------------------------------------------------------
(* Claims about the shared pool, under SpecPool *)

\* Thread t enters Pool.Delete in this step.
EntersDelete(t) ==
    /\ threads[t].pc = "idle"
    /\ threads'[t].ops = threads[t].ops + 1
    /\ \/ threads'[t].pc \in {"deleteWait", "deleteTail"}
       \/ threads'[t].pc = "idle" /\ threads'[t].ret = "delete"

\* No agent but a changes in this step.
OnlyAgentChanges(a) == \A b \in DOMAIN agents \ {a} : agents'[b] = agents[b]

\* C15: the name -> agent map changes only so: a name is added, to a map that
\* had not got it, and no agent is touched by that (an add of a name already
\* there changes nothing: its agent stays, open as it was); a delete of an absent
\* name returns the not-found error and touches neither the map nor any agent; a
\* delete of a present name closes that agent and no other and removes that name
\* and no other.  list() returns every registered name exactly once.
C15_MapChangesOnlyByAddDelete ==
    [][/\ \A n \in DOMAIN pagents \cap DOMAIN pagents' : pagents'[n] = pagents[n]
       /\ Cardinality(DOMAIN pagents' \ DOMAIN pagents) <= 1
       /\ (DOMAIN pagents' \ DOMAIN pagents # {})
          => /\ DOMAIN pagents \subseteq DOMAIN pagents'
             /\ \A a \in DOMAIN agents : agents'[a] = agents[a]
             /\ threads' = threads
       /\ \A n \in DOMAIN pagents \ DOMAIN pagents' :
            /\ DOMAIN pagents' = DOMAIN pagents \ {n}
            /\ agents'[pagents[n]].closed
            /\ OnlyAgentChanges(pagents[n])
            /\ \E t \in DOMAIN threads :
                 /\ threads[t].pc = "deleteTail" /\ threads[t].name = n
                 /\ threads'[t].pc = "idle" /\ threads'[t].ret = "delete"
                 /\ threads'[t].err = NoErr
       /\ \A t \in DOMAIN threads :
            /\ EntersDelete(t) =>
                 /\ pagents' = pagents
                 /\ IF threads'[t].name \in DOMAIN pagents
                    THEN /\ threads'[t].pc # "idle"
                         /\ threads'[t].agent = pagents[threads'[t].name]
                         /\ agents'[threads'[t].agent].closed
                         /\ OnlyAgentChanges(threads'[t].agent)
                    ELSE /\ threads'[t].pc = "idle"
                         /\ threads'[t].err = ErrNotFound
                         /\ agents' = agents
            /\ (threads'[t].ops = threads[t].ops + 1 /\ threads'[t].ret = "list")
               => /\ Len(threads'[t].result) = Cardinality(DOMAIN pagents)
                  /\ {threads'[t].result[k] : k \in 1..Len(threads'[t].result)}
                       = DOMAIN pagents
                  /\ pagents' = pagents /\ agents' = agents]_vars

\* C15's case: a delete of a registered name has returned; the name is gone, its
\* agent closed, and two other names are still registered with open agents.
C15_Witness ==
    \E t \in DOMAIN threads :
        /\ threads[t].pc = "idle" /\ threads[t].ret = "delete"
        /\ threads[t].err = NoErr
        /\ threads[t].name \notin DOMAIN pagents
        /\ agents[threads[t].agent].closed
        /\ Cardinality(DOMAIN pagents) = 2
        /\ \A n \in DOMAIN pagents : ~agents[pagents[n]].closed

\* The call has its candidate list.
HasSnapshot(c) == calls[c].pc \in {"loop", "doCall", "transport", "policy", "done", "panic"}

\* C18: the candidate list of a Pool.Do is computed once, before the first
\* attempt, and never again: the k-th attempt goes to the k-th agent of that
\* list, whatever was reported on, closed, deleted or added meanwhile.
C18_SnapshotOnce ==
    [][\A c \in DOMAIN calls :
         /\ HasSnapshot(c) => calls'[c].cands = calls[c].cands
         /\ ~HasSnapshot(c) => calls[c].attempts = 0
         /\ calls'[c].attempts # calls[c].attempts
            => /\ calls'[c].attempts = calls[c].attempts + 1
               /\ calls'[c].ctx.Agent = calls[c].cands[calls'[c].attempts]
         /\ \A k \in 1..Len(calls[c].tried) :
              calls[c].tried[k].agent = calls[c].cands[k]]_vars

\* C18's case: an agent of the snapshot was deleted from the pool before its
\* turn and attempted all the same, and an agent registered by now that could
\* be a candidate is not in the snapshot and was not attempted.
C18_Witness ==
    \E c \in DOMAIN calls :
        /\ Done(c)
        /\ Len(calls[c].cands) >= 2
        /\ \E k \in 1..Len(calls[c].tried) :
             /\ calls[c].tried[k].err = ErrAgentClosed
             /\ calls[c].tried[k].agent \notin {pagents[n] : n \in DOMAIN pagents}
        /\ \E n \in DOMAIN pagents :
             /\ AgentState(agents[pagents[n]]).State \in {Ok, OutOfDate}
             /\ \A k \in 1..Len(calls[c].cands) : calls[c].cands[k] # pagents[n]

\* No item occurs twice in the sequence.
NoDuplicates(xs) == \A i, j \in 1..Len(xs) : i # j => xs[i] # xs[j]

\* C19: every agent of a candidate list derived Ok or OutOfDate when it was
\* evaluated, no agent is in a candidate list twice, and so the attempts of one
\* Pool.Do go to agents that are pairwise different.
C19_CandidatesDistinct ==
    [][\A c \in DOMAIN calls :
         /\ (calls[c].pc = "start" /\ calls'[c].pc = "getOod")
            => \A k \in 1..Len(calls'[c].healthy) :
                 AgentState(agents[calls'[c].healthy[k]]).State = Ok
         /\ (calls[c].pc = "getOod" /\ calls'[c].pc = "loop")
            => \A k \in 1..Len(calls'[c].cands) :
                 \/ \E j \in 1..Len(calls[c].healthy) :
                      calls[c].healthy[j] = calls'[c].cands[k]
                 \/ AgentState(agents[calls'[c].cands[k]]).State = OutOfDate
         /\ NoDuplicates(calls'[c].cands)
         /\ NoDuplicates([k \in 1..Len(calls'[c].tried) |-> calls'[c].tried[k].agent])]_vars

-----------------------------------------------------------------------------
(* Claims about the candidate order, under SpecOrder *)

Registered == {pagents[n] : n \in DOMAIN pagents}

Derived(h) == {a \in Registered : AgentState(agents[a]).State = h}

\* C1: the candidate sequence is at most one OutOfDate agent (one exactly when
\* there is any), then every Ok agent in ascending order of last-request
\* instant, then every other OutOfDate agent; with 3 Ok agents of instants
\* t1 < t2 < t3 and 2 OutOfDate agents it is [OutOfDate, Ok(t1), Ok(t2), Ok(t3),
\* OutOfDate].
C1_CandidateOrder ==
    \A c \in DOMAIN calls :
        calls[c].pc = "loop" =>
            LET cs == calls[c].cands
                nOk == Cardinality(Derived(Ok))
                nOod == Cardinality(Derived(OutOfDate))
                k == IF nOod = 0 THEN 0 ELSE 1
                t(j) == agents[cs[j]].lastRequestTime
            IN  /\ Len(cs) = nOk + nOod
                /\ \A i, j \in 1..Len(cs) : i # j => cs[i] # cs[j]
                /\ \A j \in 1..Len(cs) :
                       IF j <= k \/ j > k + nOk
                       THEN cs[j] \in Derived(OutOfDate)
                       ELSE cs[j] \in Derived(Ok)
                /\ \A i, j \in (k + 1)..(k + nOk) : i < j => t(i) <= t(j)
                /\ (nOk = 3 /\ nOod = 2 /\ Cardinality({agents[a].lastRequestTime : a \in Derived(Ok)}) = 3)
                   => /\ Len(cs) = 5
                      /\ cs[1] \in Derived(OutOfDate) /\ cs[5] \in Derived(OutOfDate)
                      /\ t(2) < t(3) /\ t(3) < t(4)

\* C1's case: 3 Ok agents of distinct instants and 2 OutOfDate agents, ordered.
C1_Witness ==
    \E c \in DOMAIN calls :
        /\ calls[c].pc = "loop"
        /\ Len(calls[c].cands) = 5
        /\ Cardinality(Derived(Ok)) = 3
        /\ Cardinality(Derived(OutOfDate)) = 2
        /\ LET cs == calls[c].cands
           IN  /\ AgentState(agents[cs[1]]).State = OutOfDate
               /\ AgentState(agents[cs[5]]).State = OutOfDate
               /\ agents[cs[2]].lastRequestTime < agents[cs[3]].lastRequestTime
               /\ agents[cs[3]].lastRequestTime < agents[cs[4]].lastRequestTime

\* The agent is open, holds a token, and its explicit report is not Ok.
Excluded(a) ==
    /\ ~agents[a].closed
    /\ agents[a].tokens >= Scale
    /\ agents[a].state.State \in {Error, Banned, Unknown}

\* C20: an open agent holding a token whose last report is Error, Banned or
\* Unknown is in no candidate list computed while the report is at most 300 s
\* old, and is in every candidate list computed once it is older, as OutOfDate;
\* so is an agent that was never reported on.  When there is an OutOfDate agent,
\* the first attempt of a Pool.Do goes to an OutOfDate agent, before any Ok one.
C20_ExclusionIsTemporary ==
    /\ [](\A c \in DOMAIN calls :
            (calls[c].pc = "loop" /\ calls[c].attempts = 0) =>
                LET cs == {calls[c].cands[k] : k \in 1..Len(calls[c].cands)}
                IN  /\ \A a \in Registered :
                         /\ (Excluded(a) /\ now - agents[a].state.Timestamp <= 300)
                            => a \notin cs
                         /\ (Excluded(a) /\ now - agents[a].state.Timestamp > 300)
                            => (a \in cs /\ AgentState(agents[a]).State = OutOfDate)
                         /\ (Excluded(a) /\ agents[a].state = StateReport(Unknown, "", ZeroTime))
                            => a \in cs
                    /\ Derived(OutOfDate) # {}
                       => calls[c].cands[1] \in Derived(OutOfDate))
    /\ [][\A c \in DOMAIN calls :
            (calls[c].attempts = 0 /\ calls'[c].attempts = 1 /\ Derived(OutOfDate) # {})
               => calls'[c].ctx.Agent \in Derived(OutOfDate)]_vars

\* C20's case: the first attempt has gone to an agent whose Error report was
\* 600 s old, ahead of an Ok agent, while an open agent holding a token whose
\* Banned report is exactly 300 s old is not among the candidates, and an agent
\* never reported on is.
C20_Witness ==
    \E c \in DOMAIN calls :
        /\ calls[c].attempts = 1
        /\ Len(calls[c].cands) >= 3
        /\ calls[c].ctx.Agent = calls[c].cands[1]
        /\ agents[calls[c].cands[1]].state.State = Error
        /\ now - agents[calls[c].cands[1]].state.Timestamp = 600
        /\ AgentState(agents[calls[c].cands[2]]).State = Ok
        /\ \E a \in Registered :
             /\ Excluded(a) /\ agents[a].state.State = Banned
             /\ now - agents[a].state.Timestamp = 300
             /\ \A k \in 1..Len(calls[c].cands) : calls[c].cands[k] # a
        /\ \E k \in 1..Len(calls[c].cands) :
             agents[calls[c].cands[k]].state = StateReport(Unknown, "", ZeroTime)

=============================================================================
